---- MODULE Spec2Model ----
(***************************************************************************)
(* tauri-cliphist: the Svelte page (src/src/routes/+page.svelte) driving   *)
(* the Tauri backend commands over the external cliphist store, the        *)
(* page's debounce helper, and the ThemeManager (src/src/lib/theme.ts).    *)
(*                                                                         *)
(* Text is modelled as a sequence of one-character strings.  The backend   *)
(* (src-tauri/src/lib.rs) is not among the source files; its operations    *)
(* are modelled from sections 4.2 - 4.5 of the specification.              *)
(***************************************************************************)
EXTENDS Integers, Sequences, FiniteSets, Bags, TLC

VARIABLES
    store,         \* the external cliphist store, newest entry first
    nextId,        \* the store's next identifying token
    clipboard,     \* the system clipboard
    history,       \* +page.svelte: let history = $state([])
    searchQuery,   \* +page.svelte: let searchQuery = $state("")
    error,         \* +page.svelte: let error = $state(null); <<>> is null
    tasks,         \* the async handlers in flight, a bag of task records
    mountDone,     \* the onMount handler has returned
    escListener,   \* the keydown listener of onMount is registered
    escAfterMount, \* ESC has been pressed after onMount returned
    windowOpen,    \* the application window is open
    fin,           \* the handler that returned in the last step, if any
    rkEntries,   \* SearchEngine.rank: the entry list handed to rank
    rkQuery,     \* SearchEngine.rank: the query handed to rank
    rkResult,    \* SearchEngine.rank: the returned sequence
    rkPc,        \* "input" before rank has run, "done" after
    psDump,      \* HistoryParser.parse: the raw dump
    psResult,    \* HistoryParser.parse: the returned sequence
    psPc,        \* "input" before parse has run, "done" after
    db,            \* debounce(func, wait): its closure, the timers and the clock
    themeManager   \* theme.ts: the ThemeManager instance and the system preference

rankVars  == <<rkEntries, rkQuery, rkResult, rkPc>>
parseVars == <<psDump, psResult, psPc>>
uiVars    == <<store, nextId, clipboard, history, searchQuery, error, tasks,
               mountDone, escListener, escAfterMount, windowOpen, fin>>
debounceVars == <<db>>
themeVars == <<themeManager>>
offPageVars == <<rankVars, parseVars, debounceVars, themeVars>>
vars == <<uiVars, offPageVars>>

----------------------------------------------------------------------------
(* Bounds *)

MaxPreviewLen == 3   \* longest preview drawn for rank
MaxQueryLen   == 3   \* longest query drawn for rank
MaxEntries    == 2   \* longest entry list drawn for rank
MaxDumpLen    == 6   \* longest raw dump drawn for parse

----------------------------------------------------------------------------
(* Text *)

PreviewChars == {"a", "B", " "}
QueryChars   == {"a", "b", "B", " "}
DumpChars    == {"1", "x", "\t", "\n"}

SeqsUpTo(S, n) == UNION {[1..k -> S] : k \in 0..n}

IsSpace(c) == c = " "

ToLower(c) == IF c = "A" THEN "a" ELSE IF c = "B" THEN "b" ELSE c

Lowercase(s) == [i \in 1..Len(s) |-> ToLower(s[i])]

RECURSIVE TrimStart(_)
TrimStart(s) ==
    IF s = <<>> THEN <<>>
    ELSE IF IsSpace(Head(s)) THEN TrimStart(Tail(s)) ELSE s

RECURSIVE TrimEnd(_)
TrimEnd(s) ==
    IF s = <<>> THEN <<>>
    ELSE IF IsSpace(s[Len(s)]) THEN TrimEnd(SubSeq(s, 1, Len(s) - 1)) ELSE s

Trim(s) == TrimEnd(TrimStart(s))

\* The whitespace-delimited words of s, empty tokens discarded.
RECURSIVE SplitWhitespace(_, _)
SplitWhitespace(s, cur) ==
    IF s = <<>> THEN (IF cur = <<>> THEN <<>> ELSE <<cur>>)
    ELSE IF IsSpace(Head(s))
         THEN (IF cur = <<>> THEN <<>> ELSE <<cur>>) \o SplitWhitespace(Tail(s), <<>>)
         ELSE SplitWhitespace(Tail(s), Append(cur, Head(s)))

Words(s) == SplitWhitespace(s, <<>>)

\* needle occurs in hay as a contiguous substring (case-sensitive).
Contains(hay, needle) ==
    \E i \in 0..(Len(hay) - Len(needle)) :
        SubSeq(hay, i + 1, i + Len(needle)) = needle

----------------------------------------------------------------------------
(* SearchEngine (specification section 4.3) *)

LARGE_BONUS == 1000

SubstringSignal(preview, query) ==
    Contains(Lowercase(preview), Lowercase(Trim(query)))

WordSignalCount(preview, query) ==
    LET ws == Words(Lowercase(Trim(query)))
    IN  Cardinality({i \in 1..Len(ws) : Contains(Lowercase(preview), ws[i])})

\* Mutant of Matches: the word signal is ignored.
Matches_SubstringOnly(preview, query) == SubstringSignal(preview, query)

Matches(preview, query) ==
    SubstringSignal(preview, query) \/ WordSignalCount(preview, query) > 0

\* Mutant of Score: no bonus for the substring signal.
Score_NoBonus(preview, query) == WordSignalCount(preview, query)

Score(preview, query) ==
    (IF SubstringSignal(preview, query) THEN LARGE_BONUS ELSE 0)
        + WordSignalCount(preview, query)

\* Mutant of InsertByScore: e goes before the elements of equal score.
RECURSIVE InsertByScore_Unstable(_, _, _)
InsertByScore_Unstable(sorted, e, query) ==
    IF sorted = <<>> THEN <<e>>
    ELSE IF Score(Head(sorted).preview, query) > Score(e.preview, query)
         THEN <<Head(sorted)>> \o InsertByScore_Unstable(Tail(sorted), e, query)
         ELSE <<e>> \o sorted

\* Stable insertion: e goes after every element whose score is not lower.
RECURSIVE InsertByScore(_, _, _)
InsertByScore(sorted, e, query) ==
    IF sorted = <<>> THEN <<e>>
    ELSE IF Score(Head(sorted).preview, query) >= Score(e.preview, query)
         THEN <<Head(sorted)>> \o InsertByScore(Tail(sorted), e, query)
         ELSE <<e>> \o sorted

RECURSIVE SortByScoreDesc(_, _)
SortByScoreDesc(entries, query) ==
    IF entries = <<>> THEN <<>>
    ELSE InsertByScore(SortByScoreDesc(SubSeq(entries, 1, Len(entries) - 1), query),
                       entries[Len(entries)], query)

rank(entries, query) ==
    IF Trim(query) = <<>> THEN entries
    ELSE SortByScoreDesc(SelectSeq(entries, LAMBDA e : Matches(e.preview, query)), query)

----------------------------------------------------------------------------
(* HistoryParser (specification section 4.2) *)

\* The lines of a dump: split at "\n", no empty piece after a final "\n".
RECURSIVE SplitLines(_, _)
SplitLines(s, cur) ==
    IF s = <<>> THEN (IF cur = <<>> THEN <<>> ELSE <<cur>>)
    ELSE IF Head(s) = "\n" THEN <<cur>> \o SplitLines(Tail(s), <<>>)
         ELSE SplitLines(Tail(s), Append(cur, Head(s)))

Lines(dump) == SplitLines(dump, <<>>)

\* Position of the first tab of a line, 0 when there is none.
RECURSIVE FirstTab(_, _)
FirstTab(line, i) ==
    IF i > Len(line) THEN 0
    ELSE IF line[i] = "\t" THEN i ELSE FirstTab(line, i + 1)

\* One line: <<entry>> for a record "<id>\t<preview>", <<>> for a line that is skipped.
ParseLine(line) ==
    LET t == FirstTab(line, 1)
    IN  IF t <= 1 THEN <<>>
        ELSE <<[id |-> SubSeq(line, 1, t - 1),
                preview |-> SubSeq(line, t + 1, Len(line))]>>

\* Mutant of ParseLines: the first malformed line ends the listing.
RECURSIVE ParseLines_StopAtMalformed(_)
ParseLines_StopAtMalformed(lines) ==
    IF lines = <<>> THEN <<>>
    ELSE IF ParseLine(Head(lines)) = <<>> THEN <<>>
         ELSE ParseLine(Head(lines)) \o ParseLines_StopAtMalformed(Tail(lines))

RECURSIVE ParseLines(_)
ParseLines(lines) ==
    IF lines = <<>> THEN <<>>
    ELSE ParseLine(Head(lines)) \o ParseLines(Tail(lines))

parse(rawDump) == ParseLines(Lines(rawDump))

----------------------------------------------------------------------------
(* The external store and the HistoryStore facade (specification 4.5, 6) *)

MaxId    == 2   \* identifying tokens the store hands out
MaxStore == 1   \* entries the store holds at once
MaxTasks == 2   \* handlers of the page in flight at once

Contents == {<<"a">>, <<"B", "a", "b">>}      \* clipboard contents captured
Queries  == {<<" ">>, <<"b">>}               \* texts typed into the search box

PREVIEW_LIMIT == 2

Digits == <<"1", "2", "3", "4", "5", "6", "7", "8", "9">>
IdText(n) == <<Digits[n]>>

Preview(content) ==
    SubSeq(content, 1, IF Len(content) < PREVIEW_LIMIT THEN Len(content) ELSE PREVIEW_LIMIT)

\* The store's dump command: one line "<id>\t<preview>" per entry, newest first.
RECURSIVE Dump(_)
Dump(st) ==
    IF st = <<>> THEN <<>>
    ELSE Head(st).id \o <<"\t">> \o Preview(Head(st).content) \o <<"\n">> \o Dump(Tail(st))

HasId(st, id) == \E k \in 1..Len(st) : st[k].id = id

EntryOf(st, id) == st[CHOOSE k \in 1..Len(st) : st[k].id = id]

RemoveId(st, id) == SelectSeq(st, LAMBDA e : e.id # id)

list(st) == parse(Dump(st))

\* The {id, content} records the commands return to the page.
ToClipboardEntries(entries) ==
    [k \in 1..Len(entries) |-> [id |-> entries[k].id, content |-> entries[k].preview]]

get_history(st) == ToClipboardEntries(list(st))

search_history(st, query) == ToClipboardEntries(rank(list(st), query))

get_entry_content(st, id) ==
    IF HasId(st, id) THEN [ok |-> TRUE, text |-> EntryOf(st, id).content, err |-> ""]
    ELSE [ok |-> FALSE, text |-> <<>>, err |-> "EntryNotFound"]

delete_entry(st, id) ==
    IF HasId(st, id) THEN [ok |-> TRUE, store |-> RemoveId(st, id), err |-> ""]
    ELSE [ok |-> FALSE, store |-> st, err |-> "EntryNotFound"]

IdCommands == {"get_entry_content", "delete_entry"}

\* The failure of the external tool behind a command.
ToolFailure(cmd) ==
    IF cmd = "copy_to_clipboard" THEN "ClipboardToolUnavailable" ELSE "ToolExecutionFailed"

----------------------------------------------------------------------------
(* The page: handlers in flight *)

NoEntry == [id |-> <<>>, content |-> <<>>]

\* kind: the handler; pc: "req" while invoke(cmd, arg) awaits the backend, "resp"
\* while its result awaits the handler; ok/list/text/err: the result; entry: the
\* handler's argument; blank: the searchQuery that search() read was empty or
\* whitespace; changed: the handler has changed history; log: the backend
\* invocations made for the handler so far (stale: the id was absent from the
\* store; fault: the external tool failed; effect: the store or the clipboard
\* changed); age: of a request for a list, "newest" until a later request for a
\* list is issued, then "older", and "overtaken" once the result of a later
\* request is on display.
IdleTask == [kind |-> "idle", pc |-> "idle", cmd |-> "", arg |-> <<>>, entry |-> NoEntry,
             blank |-> FALSE, ok |-> TRUE, list |-> <<>>, text |-> <<>>, err |-> "",
             changed |-> FALSE, age |-> "newest", log |-> <<>>]

NewTask(kind, cmd, arg, entry) ==
    [IdleTask EXCEPT !.kind = kind, !.pc = "req", !.cmd = cmd, !.arg = arg, !.entry = entry]

Invoke(t, cmd, arg) == [t EXCEPT !.pc = "req", !.cmd = cmd, !.arg = arg]

Result(t, ok, lst, text, err, stale, fault, effect) ==
    [t EXCEPT !.pc = "resp", !.ok = ok, !.list = lst, !.text = text, !.err = err,
              !.log = Append(@, [cmd |-> t.cmd, arg |-> t.arg, ok |-> ok, err |-> err,
                                 text |-> text, stale |-> stale, fault |-> fault,
                                 effect |-> effect])]

Reply(t, ok, lst, text, err, stale, effect) ==
    Result(t, ok, lst, text, err, stale, FALSE, effect)

InFlight == BagToSet(tasks)

Replace(t, t2) == (tasks (-) SetToBag({t})) (+) SetToBag({t2})

Start(t) ==
    /\ BagCardinality(tasks) < MaxTasks
    /\ tasks' = tasks (+) SetToBag({t})
    /\ fin' = IdleTask

Continue(t, t2) ==
    /\ tasks' = Replace(t, t2)
    /\ fin' = IdleTask

Return(t, t2) ==
    /\ tasks' = tasks (-) SetToBag({t})
    /\ fin' = t2

ListCommands == {"get_history", "search_history"}

\* The requests for a list in flight when another one is issued.
Aged(B) ==
    BagOfAll(LAMBDA x : IF x.cmd \in ListCommands /\ x.age = "newest"
                        THEN [x EXCEPT !.age = "older"] ELSE x, B)

\* The requests for a list still in flight when the newest one is displayed.
Overtaken(B) ==
    BagOfAll(LAMBDA x : IF x.cmd \in ListCommands
                        THEN [x EXCEPT !.age = "overtaken"] ELSE x, B)

\* A handler is called and issues a request for a list.
StartList(t) ==
    /\ BagCardinality(tasks) < MaxTasks
    /\ tasks' = Aged(tasks) (+) SetToBag({t})
    /\ fin' = IdleTask

\* A handler in flight issues a request for a list.
ContinueList(t, t2) ==
    /\ tasks' = Aged(tasks (-) SetToBag({t})) (+) SetToBag({t2})
    /\ fin' = IdleTask

\* A handler returns after its request for a list; shown: the list was assigned.
ReturnList(t, t2, shown) ==
    /\ tasks' = IF shown /\ t.age = "newest" THEN Overtaken(tasks (-) SetToBag({t}))
                ELSE tasks (-) SetToBag({t})
    /\ fin' = t2

Awaiting(t, cmd) == windowOpen /\ t.pc = "req" /\ t.cmd = cmd

Resumed(t, cmd) == windowOpen /\ t.pc = "resp" /\ t.cmd = cmd

----------------------------------------------------------------------------
(* The store's own activity *)

\* New clipboard activity: the store records it under a fresh token.
Capture(c) ==
    /\ windowOpen
    /\ nextId <= MaxId
    /\ Len(store) < MaxStore
    /\ store' = <<[id |-> IdText(nextId), content |-> c]>> \o store
    /\ nextId' = nextId + 1
    /\ fin' = IdleTask
    /\ UNCHANGED <<clipboard, history, searchQuery, error, tasks, mountDone,
                   escListener, escAfterMount, windowOpen, offPageVars>>

\* The store drops an entry on its own (another client, de-duplication, its size limit).
StoreDrop(k) ==
    /\ windowOpen
    /\ k \in 1..Len(store)
    /\ store' = RemoveId(store, store[k].id)
    /\ fin' = IdleTask
    /\ UNCHANGED <<nextId, clipboard, history, searchQuery, error, tasks, mountDone,
                   escListener, escAfterMount, windowOpen, offPageVars>>

----------------------------------------------------------------------------
(* The backend handles one invocation *)

BackendFrame == UNCHANGED <<nextId, history, searchQuery, error, mountDone, escListener,
                            escAfterMount, windowOpen, offPageVars>>

Stale(t) == t.cmd \in IdCommands /\ ~HasId(store, t.arg)

\* The external tool cannot be run, exits non-zero or times out.  The
\* availability check never fails: it answers false instead.
BackendFails(t) ==
    /\ windowOpen
    /\ t.pc = "req"
    /\ t.cmd # "is_cliphist_available"
    /\ Continue(t, Result(t, FALSE, <<>>, <<>>, ToolFailure(t.cmd), Stale(t), TRUE, FALSE))
    /\ UNCHANGED <<store, clipboard>>
    /\ BackendFrame

is_cliphist_available(t, found) ==
    /\ Awaiting(t, "is_cliphist_available")
    /\ Continue(t, Reply(t, TRUE, <<>>, IF found THEN <<"true">> ELSE <<"false">>,
                         "", FALSE, FALSE))
    /\ UNCHANGED <<store, clipboard>>
    /\ BackendFrame

BackendList(t) ==
    /\ Awaiting(t, "get_history")
    /\ Continue(t, Reply(t, TRUE, get_history(store), <<>>, "", FALSE, FALSE))
    /\ UNCHANGED <<store, clipboard>>
    /\ BackendFrame

BackendSearch(t) ==
    /\ Awaiting(t, "search_history")
    /\ Continue(t, Reply(t, TRUE, search_history(store, t.arg), <<>>, "", FALSE, FALSE))
    /\ UNCHANGED <<store, clipboard>>
    /\ BackendFrame

BackendFetch(t) ==
    /\ Awaiting(t, "get_entry_content")
    /\ LET r == get_entry_content(store, t.arg)
       IN  Continue(t, Reply(t, r.ok, <<>>, r.text, r.err, Stale(t), FALSE))
    /\ UNCHANGED <<store, clipboard>>
    /\ BackendFrame

BackendDelete(t) ==
    /\ Awaiting(t, "delete_entry")
    /\ LET r == delete_entry(store, t.arg)
       IN  /\ store' = r.store
           /\ Continue(t, Reply(t, r.ok, <<>>, <<>>, r.err, Stale(t), r.store # store))
    /\ UNCHANGED clipboard
    /\ BackendFrame

BackendWrite(t) ==
    /\ Awaiting(t, "copy_to_clipboard")
    /\ clipboard' = t.arg
    /\ Continue(t, Reply(t, TRUE, <<>>, <<>>, "", FALSE, TRUE))
    /\ UNCHANGED store
    /\ BackendFrame

----------------------------------------------------------------------------
(* The page: src/src/routes/+page.svelte, lines 1 - 112 *)

NoError == <<>>

UiFrame == UNCHANGED <<store, nextId, clipboard, offPageVars>>

\* Mutant of loadHistory_newHistory: a failed load clears the list.
loadHistory_newHistory_ClearOnError(t, hist) == IF t.ok THEN t.list ELSE <<>>

\* Mutant of loadHistory_newHistory: the loaded list is not assigned.
loadHistory_newHistory_NotAssigned(t, hist) == hist

\* loadHistory: history = await invoke("get_history"), assigned only when it resolves
loadHistory_newHistory(t, hist) == IF t.ok THEN t.list ELSE hist

loadHistory_newError(t) == IF t.ok THEN NoError ELSE <<t.err>>

\* search: history = await invoke("search_history", ...), assigned only when it resolves
search_newHistory(t, hist) == IF t.ok THEN t.list ELSE hist

search_newError(t) == IF t.ok THEN NoError ELSE <<t.err>>

\* Mutant of search_command: the query is tested without trim().
search_command_NoTrim(query) == IF query # <<>> THEN "search_history" ELSE "get_history"

\* search: if (searchQuery.trim()) search_history else loadHistory()
search_command(query) == IF Trim(query) # <<>> THEN "search_history" ELSE "get_history"

search_invoke(t, query) ==
    Invoke([t EXCEPT !.blank = (Trim(query) = <<>>)], search_command(query),
           IF search_command(query) = "search_history" THEN query ELSE <<>>)

\* Mutant of copyContent_proceeds: the write follows a failed fetch as well.
copyContent_proceeds_Always(t) == TRUE

\* copyContent: a rejected get_entry_content skips to the catch block
copyContent_proceeds(t) == t.ok

\* Mutant of copyContent_content: the displayed preview is written.
copyContent_content_Preview(t) == t.entry.content

\* copyContent: invoke("copy_to_clipboard", { content: fullContent })
copyContent_content(t) == t.text

copyContent_error(t) == <<"Failed to copy content: ", t.err>>

\* deleteEntry: error = null after the awaited search() has returned
deleteEntry_errorAfterReload(err) == NoError

\* <input bind:value={searchQuery} oninput={search}>
search(q) ==
    /\ windowOpen
    /\ q # searchQuery
    /\ searchQuery' = q
    /\ StartList(search_invoke([IdleTask EXCEPT !.kind = "search"], q))
    /\ UNCHANGED <<history, error, mountDone, escListener, escAfterMount, windowOpen>>
    /\ UiFrame

\* <button onclick={() => copyContent(entry)}>
copyContent(k) ==
    /\ windowOpen
    /\ k \in 1..Len(history)
    /\ Start(NewTask("copy", "get_entry_content", history[k].id, history[k]))
    /\ UNCHANGED <<history, searchQuery, error, mountDone, escListener, escAfterMount,
                   windowOpen>>
    /\ UiFrame

\* <button onclick={() => deleteEntry(entry.id)}>
deleteEntry(k) ==
    /\ windowOpen
    /\ k \in 1..Len(history)
    /\ Start(NewTask("delete", "delete_entry", history[k].id, history[k]))
    /\ UNCHANGED <<history, searchQuery, error, mountDone, escListener, escAfterMount,
                   windowOpen>>
    /\ UiFrame

\* The end of loadHistory or search, and of the handler that awaited it.
ListReturned(t, hist, err) ==
        /\ history' = hist
        /\ error' = IF t.kind = "delete" THEN deleteEntry_errorAfterReload(err) ELSE err
        /\ escListener' = (escListener \/ t.kind = "mount")
        /\ mountDone' = (mountDone \/ t.kind = "mount")
        /\ ReturnList(t, [t EXCEPT !.changed = @ \/ hist # history], t.ok)
        /\ UNCHANGED <<searchQuery, escAfterMount, windowOpen>>
        /\ UiFrame

loadHistory_returns(t) ==
    /\ Resumed(t, "get_history")
    /\ ListReturned(t, loadHistory_newHistory(t, history), loadHistory_newError(t))

search_returns(t) ==
    /\ Resumed(t, "search_history")
    /\ ListReturned(t, search_newHistory(t, history), search_newError(t))

copyContent_fetched(t) ==
    /\ Resumed(t, "get_entry_content")
    /\ IF copyContent_proceeds(t)
       THEN /\ Continue(t, Invoke(t, "copy_to_clipboard", copyContent_content(t)))
            /\ UNCHANGED error
       ELSE /\ error' = copyContent_error(t)
            /\ Return(t, t)
    /\ UNCHANGED <<history, searchQuery, mountDone, escListener, escAfterMount, windowOpen>>
    /\ UiFrame

copyContent_written(t) ==
    /\ Resumed(t, "copy_to_clipboard")
    /\ error' = IF t.ok THEN NoError ELSE copyContent_error(t)
    /\ Return(t, t)
    /\ UNCHANGED <<history, searchQuery, mountDone, escListener, escAfterMount, windowOpen>>
    /\ UiFrame

deleteEntry_deleted(t) ==
    /\ Resumed(t, "delete_entry")
    /\ IF t.ok
       THEN /\ ContinueList(t, search_invoke(t, searchQuery))
            /\ UNCHANGED error
       ELSE /\ error' = <<t.err>>
            /\ Return(t, t)
    /\ UNCHANGED <<history, searchQuery, mountDone, escListener, escAfterMount, windowOpen>>
    /\ UiFrame

\* Mutant of onMount_available: the answer of the check is not looked at.
onMount_available_Ignored(t) == TRUE

\* onMount: const available = await invoke("is_cliphist_available"); if (!available) ...
onMount_available(t) == t.text = <<"true">>

onMount_checked(t) ==
    /\ Resumed(t, "is_cliphist_available")
    /\ IF ~t.ok
       THEN /\ error' = <<"Failed to check cliphist availability: ", t.err>>
            /\ mountDone' = TRUE
            /\ Return(t, t)
       ELSE IF ~onMount_available(t)
       THEN /\ error' = <<"cliphist is not installed or not available. Please install cliphist to use this app.">>
            /\ mountDone' = TRUE
            /\ Return(t, t)
       ELSE /\ ContinueList(t, Invoke(t, "get_history", <<>>))
            /\ UNCHANGED <<error, mountDone>>
    /\ UNCHANGED <<history, searchQuery, escListener, escAfterMount, windowOpen>>
    /\ UiFrame

\* The user presses ESC: handleKeydown closes the window, if it is registered.
PressEsc ==
    /\ windowOpen
    /\ escAfterMount' = (escAfterMount \/ mountDone)
    /\ windowOpen' = ~escListener
    /\ fin' = IdleTask
    /\ UNCHANGED <<history, searchQuery, error, tasks, mountDone, escListener>>
    /\ UiFrame

InitStores ==
    UNION {{[k \in 1..n |-> [id |-> IdText(n + 1 - k), content |-> c[k]]] :
                c \in [1..n -> Contents]} : n \in 0..MaxStore}

UiInit ==
    /\ store \in InitStores
    /\ nextId = Len(store) + 1
    /\ clipboard = <<>>
    /\ history = <<>>
    /\ searchQuery = <<>>
    /\ error = NoError
    /\ tasks = SetToBag({NewTask("mount", "is_cliphist_available", <<>>, NoEntry)})
    /\ mountDone = FALSE
    /\ escListener = FALSE
    /\ escAfterMount = FALSE
    /\ windowOpen = TRUE
    /\ fin = IdleTask

\* The page is not running.
UiIdle ==
    /\ store = <<>>
    /\ nextId = 1
    /\ clipboard = <<>>
    /\ history = <<>>
    /\ searchQuery = <<>>
    /\ error = NoError
    /\ tasks = EmptyBag
    /\ mountDone = FALSE
    /\ escListener = FALSE
    /\ escAfterMount = FALSE
    /\ windowOpen = FALSE
    /\ fin = IdleTask

----------------------------------------------------------------------------
(* rank and parse applied to drawn inputs *)

RankEntryLists ==
    UNION {{[i \in 1..n |-> [id |-> i, preview |-> p[i]]] :
                p \in [1..n -> SeqsUpTo(PreviewChars, MaxPreviewLen)]} : n \in 0..MaxEntries}

RankDone == rkPc = "done"

RankIdle == rkEntries = <<>> /\ rkQuery = <<>> /\ rkResult = <<>> /\ rkPc = "off"

ParseIdle == psDump = <<>> /\ psResult = <<>> /\ psPc = "off"

RankInit ==
    /\ rkEntries \in RankEntryLists
    /\ rkQuery \in SeqsUpTo(QueryChars, MaxQueryLen)
    /\ rkResult = <<>>
    /\ rkPc = "input"

RankApply ==
    /\ rkPc = "input"
    /\ rkResult' = rank(rkEntries, rkQuery)
    /\ rkPc' = "done"
    /\ UNCHANGED <<rkEntries, rkQuery, parseVars, uiVars, debounceVars, themeVars>>

ParseInit ==
    /\ psDump \in SeqsUpTo(DumpChars, MaxDumpLen)
    /\ psResult = <<>>
    /\ psPc = "input"

ParseApply ==
    /\ psPc = "input"
    /\ psResult' = parse(psDump)
    /\ psPc' = "done"
    /\ UNCHANGED <<psDump, rankVars, uiVars, debounceVars, themeVars>>

----------------------------------------------------------------------------
(* debounce: src/src/routes/+page.svelte, lines 200 - 212 *)

MaxWait  == 2   \* longest wait drawn
MaxTime  == 5   \* the clock is not followed beyond this time
MaxCalls == 3   \* calls of executedFunction

CallArgs == {"x", "y"}

dbWait    == db.wait      \* the wait argument, 0 while debounce is not in use
dbNow     == db.now       \* the current time
dbTimers  == db.timers    \* the timers set and not yet run or cleared
dbTimeout == db.timeout   \* let timeout, 0 while undefined
dbNextId  == db.nextId    \* the id the next setTimeout returns
dbLog     == db.log       \* the calls of executedFunction and runs of func so far

IsCall(e) == e.ev = "call"

\* Mutant of clearTimeout: the timer is left in place.
clearTimeout_Noop(timers, id) == timers

\* clearTimeout(id): the timer with this id, if it is still set, will not run
clearTimeout(timers, id) == {tm \in timers : tm.id # id}

\* setTimeout(later, wait): later() runs once wait has passed, or after that
setTimeout(timers, id, args) ==
    timers \cup {[id |-> id, due |-> dbNow + dbWait, args |-> args]}

\* debouncedSearch(...args): clearTimeout(timeout); timeout = setTimeout(later, wait)
executedFunction(args) ==
    /\ dbWait > 0
    /\ Len(SelectSeq(dbLog, IsCall)) < MaxCalls
    /\ db' = [db EXCEPT
                !.timers = setTimeout(clearTimeout(dbTimers, dbTimeout), dbNextId, args),
                !.timeout = dbNextId,
                !.nextId = dbNextId + 1,
                !.log = Append(dbLog, [ev |-> "call", at |-> dbNow, args |-> args])]
    /\ UNCHANGED <<uiVars, rankVars, parseVars, themeVars>>

\* The timer tm runs, at its due time or later: clearTimeout(timeout); func(...args)
later(tm) ==
    /\ dbWait > 0
    /\ tm \in dbTimers
    /\ tm.due <= dbNow
    /\ db' = [db EXCEPT
                !.timers = clearTimeout(dbTimers \ {tm}, dbTimeout),
                !.log = Append(dbLog, [ev |-> "run", at |-> dbNow, args |-> tm.args])]
    /\ UNCHANGED <<uiVars, rankVars, parseVars, themeVars>>

\* Time passes, whether or not a timer is due.
Tick ==
    /\ dbWait > 0
    /\ dbNow < MaxTime
    /\ db' = [db EXCEPT !.now = dbNow + 1]
    /\ UNCHANGED <<uiVars, rankVars, parseVars, themeVars>>

\* debounce is not in use.
DebounceOff ==
    [wait |-> 0, now |-> 0, timers |-> {}, timeout |-> 0, nextId |-> 1, log |-> <<>>]

\* debounce(func, wait) has returned executedFunction.
DebounceInit == \E wait \in 1..MaxWait : db = [DebounceOff EXCEPT !.wait = wait]

DebounceIdle == db = DebounceOff

----------------------------------------------------------------------------
(* ThemeManager: src/src/lib/theme.ts *)

MaxSubs    == 3   \* subscribe calls
MaxSetting == 2   \* setTheme calls awaiting tauriSetTheme at once

Themes == {"light", "dark", "system"}

currentTheme         == themeManager.currentTheme
currentResolvedTheme == themeManager.currentResolvedTheme
listeners            == themeManager.listeners
prefersDark   == themeManager.prefersDark    \* matchMedia('(prefers-color-scheme: dark)')
settingTheme  == themeManager.settingTheme   \* setTheme calls awaiting tauriSetTheme
subscriptions == themeManager.subscriptions  \* the listener of each subscribe call so far
ideal         == themeManager.ideal   \* the registrations left if each unsubscribe
                                      \* removed its own
lastOp        == themeManager.lastOp  \* the last operation and what it did
themeOn       == themeManager.on      \* the ThemeManager has been constructed

\* The listener functions: "plain" only takes the theme; "once" calls the
\* unsubscribe function of its own subscription when it is notified; "adder"
\* subscribes "plain" when it is notified.
Listeners == {"plain", "once", "adder"}

NoOp == [op |-> "none", reg |-> 0, before |-> <<>>, notified |-> <<>>]

\* Array.prototype.indexOf: the first position of fn, 0 for -1
RECURSIVE indexOfFrom(_, _, _)
indexOfFrom(ls, fn, k) ==
    IF k > Len(ls) THEN 0
    ELSE IF ls[k] = fn THEN k ELSE indexOfFrom(ls, fn, k + 1)

indexOf(ls, fn) == indexOfFrom(ls, fn, 1)

\* Array.prototype.splice(index, 1)
splice(ls, k) == SubSeq(ls, 1, k - 1) \o SubSeq(ls, k + 1, Len(ls))

\* The function subscribe(listener) returns
unsubscribe(ls, fn) == IF indexOf(ls, fn) > 0 THEN splice(ls, indexOf(ls, fn)) ELSE ls

\* What is left of regs when the registration made by subscribe call r is removed.
RemoveReg(regs, r) == SelectSeq(regs, LAMBDA x : x.reg # r)

\* The subscribe call that registered the listener "once".
RegOfOnce(subs) == CHOOSE r \in 1..Len(subs) : subs[r] = "once"

\* A listener is called from forEach: st holds listeners (ls), ideal, subscriptions
\* (subs) and the listeners notified so far.
Notified(st, fn) ==
    LET seen == Append(st.notified, fn)
    IN  IF fn = "once"
        THEN [st EXCEPT !.ls = unsubscribe(st.ls, fn),
                        !.ideal = RemoveReg(st.ideal, RegOfOnce(st.subs)),
                        !.notified = seen]
        ELSE IF fn = "adder" /\ Len(st.subs) < MaxSubs
        THEN [st EXCEPT !.ls = Append(st.ls, "plain"),
                        !.ideal = Append(st.ideal, [fn |-> "plain", reg |-> Len(st.subs) + 1]),
                        !.subs = Append(st.subs, "plain"),
                        !.notified = seen]
        ELSE [st EXCEPT !.notified = seen]

\* Array.prototype.forEach: the positions 1..len of the array as it is when each
\* is reached; a position the array no longer has is passed over.
RECURSIVE forEach(_, _, _)
forEach(st, k, len) ==
    IF k > len THEN st
    ELSE IF k > Len(st.ls) THEN forEach(st, k + 1, len)
    ELSE forEach(Notified(st, st.ls[k]), k + 1, len)

resolve(theme, dark) ==
    IF theme = "system" THEN (IF dark THEN "dark" ELSE "light") ELSE theme

\* updateResolvedTheme on the manager tm; the class "dark" of the document
\* follows currentResolvedTheme.
updateResolvedTheme(tm) ==
    LET st == forEach([ls |-> tm.listeners, ideal |-> tm.ideal, subs |-> tm.subscriptions,
                       notified |-> <<>>], 1, Len(tm.listeners))
    IN  [tm EXCEPT !.currentResolvedTheme = resolve(tm.currentTheme, tm.prefersDark),
                   !.listeners = st.ls,
                   !.ideal = st.ideal,
                   !.subscriptions = st.subs,
                   !.lastOp = [op |-> "update", reg |-> 0, before |-> tm.listeners,
                               notified |-> st.notified]]

ThemeFrame == UNCHANGED <<uiVars, rankVars, parseVars, debounceVars>>

\* setTheme(newTheme) up to the await
setTheme(newTheme) ==
    /\ themeOn
    /\ settingTheme < MaxSetting
    /\ themeManager' = [themeManager EXCEPT !.currentTheme = newTheme,
                                            !.settingTheme = settingTheme + 1,
                                            !.lastOp = NoOp]
    /\ ThemeFrame

\* tauriSetTheme resolves: setTheme goes on to updateResolvedTheme()
setTheme_resumes ==
    /\ themeOn
    /\ settingTheme > 0
    /\ themeManager' =
           updateResolvedTheme([themeManager EXCEPT !.settingTheme = settingTheme - 1])
    /\ ThemeFrame

\* tauriSetTheme rejects: the promise of setTheme rejects at the await
setTheme_rejects ==
    /\ themeOn
    /\ settingTheme > 0
    /\ themeManager' = [themeManager EXCEPT !.settingTheme = settingTheme - 1,
                                            !.lastOp = NoOp]
    /\ ThemeFrame

\* subscribe(listener); "once" is created for one subscription
subscribe(fn) ==
    /\ themeOn
    /\ Len(subscriptions) < MaxSubs
    /\ fn = "once" => \A r \in 1..Len(subscriptions) : subscriptions[r] # "once"
    /\ themeManager' =
           [themeManager EXCEPT
               !.listeners = Append(listeners, fn),
               !.ideal = Append(ideal, [fn |-> fn, reg |-> Len(subscriptions) + 1]),
               !.subscriptions = Append(subscriptions, fn),
               !.lastOp = NoOp]
    /\ ThemeFrame

\* The function that subscribe call r returned is called.
Unsubscribe(r) ==
    /\ themeOn
    /\ r \in 1..Len(subscriptions)
    /\ themeManager' =
           [themeManager EXCEPT
               !.listeners = unsubscribe(listeners, subscriptions[r]),
               !.ideal = RemoveReg(ideal, r),
               !.lastOp = [op |-> "unsubscribe", reg |-> r, before |-> listeners,
                           notified |-> <<>>]]
    /\ ThemeFrame

\* The system preference changes: handleChange
handleChange ==
    /\ themeOn
    /\ LET tm == [themeManager EXCEPT !.prefersDark = ~prefersDark, !.lastOp = NoOp]
       IN  themeManager' = IF currentTheme = "system" THEN updateResolvedTheme(tm) ELSE tm
    /\ ThemeFrame

\* The fields of ThemeManager as declared, before the constructor has run.
ThemeOff ==
    [currentTheme |-> "system", currentResolvedTheme |-> "light", listeners |-> <<>>,
     prefersDark |-> FALSE, settingTheme |-> 0, subscriptions |-> <<>>, ideal |-> <<>>,
     lastOp |-> NoOp, on |-> FALSE]

\* new ThemeManager(): updateResolvedTheme() with no listener yet
ThemeInit ==
    \E dark \in BOOLEAN :
        themeManager = [updateResolvedTheme([ThemeOff EXCEPT !.prefersDark = dark, !.on = TRUE])
                           EXCEPT !.lastOp = NoOp]

ThemeIdle == themeManager = ThemeOff

----------------------------------------------------------------------------
(* Specifications *)

Init == UiInit /\ RankIdle /\ ParseIdle /\ DebounceIdle /\ ThemeIdle

Next ==
    \/ \E c \in Contents : Capture(c)
    \/ \E k \in 1..MaxStore : StoreDrop(k)
    \/ \E t \in InFlight : BackendFails(t)
    \/ \E t \in InFlight, found \in BOOLEAN : is_cliphist_available(t, found)
    \/ \E t \in InFlight : BackendList(t)
    \/ \E t \in InFlight : BackendSearch(t)
    \/ \E t \in InFlight : BackendFetch(t)
    \/ \E t \in InFlight : BackendDelete(t)
    \/ \E t \in InFlight : BackendWrite(t)
    \/ \E q \in Queries : search(q)
    \/ \E k \in 1..MaxStore : copyContent(k)
    \/ \E k \in 1..MaxStore : deleteEntry(k)
    \/ \E t \in InFlight : loadHistory_returns(t)
    \/ \E t \in InFlight : search_returns(t)
    \/ \E t \in InFlight : copyContent_fetched(t)
    \/ \E t \in InFlight : copyContent_written(t)
    \/ \E t \in InFlight : deleteEntry_deleted(t)
    \/ \E t \in InFlight : onMount_checked(t)
    \/ PressEsc

Spec == Init /\ [][Next]_vars

InitRank == RankInit /\ ParseIdle /\ UiIdle /\ DebounceIdle /\ ThemeIdle

InitParse == ParseInit /\ RankIdle /\ UiIdle /\ DebounceIdle /\ ThemeIdle

\* The page, or rank applied to drawn inputs.
InitSearch == Init \/ InitRank

NextSearch == Next \/ RankApply

SpecSearch == InitSearch /\ [][NextSearch]_vars

SpecRank == InitRank /\ [][RankApply]_vars

SpecParse == InitParse /\ [][ParseApply]_vars

InitDebounce == DebounceInit /\ UiIdle /\ RankIdle /\ ParseIdle /\ ThemeIdle

NextDebounce ==
    \/ \E args \in CallArgs : executedFunction(args)
    \/ \E tm \in dbTimers : later(tm)
    \/ Tick

SpecDebounce == InitDebounce /\ [][NextDebounce]_vars

InitTheme == ThemeInit /\ UiIdle /\ RankIdle /\ ParseIdle /\ DebounceIdle

NextTheme ==
    \/ \E newTheme \in Themes : setTheme(newTheme)
    \/ setTheme_resumes
    \/ setTheme_rejects
    \/ \E fn \in Listeners : subscribe(fn)
    \/ \E r \in 1..MaxSubs : Unsubscribe(r)
    \/ handleChange

SpecTheme == InitTheme /\ [][NextTheme]_vars

----------------------------------------------------------------------------
(* Properties of the page *)

\* The handlers in flight and the one that has just returned.
Handlers == InFlight \cup (IF fin.kind = "idle" THEN {} ELSE {fin})

Failed(t) == \E k \in 1..Len(t.log) : ~t.log[k].ok

HistoryIds == {history[k].id : k \in 1..Len(history)}

\* C1: a handler (load, search, copy, delete, mount) for which a backend
\* invocation has failed has left the displayed history as it was, in every
\* one of its steps.
C1_FailedActionKeepsHistory ==
    \A t \in Handlers : Failed(t) => ~t.changed

\* deleteEntry has returned after delete_entry succeeded and the reload failed,
\* with a list on display.
C1_Witness ==
    /\ fin.kind = "delete"
    /\ Len(fin.log) = 2
    /\ fin.log[1].ok
    /\ ~fin.log[2].ok
    /\ history # <<>>

\* C2: once delete_entry(id) has succeeded the store's listing never holds an
\* entry with that id again, and when deleteEntry returns after delete_entry and
\* its reload have both succeeded the displayed history holds no such entry.
C2_DeletedIdIsGone ==
    \A t \in Handlers :
        (t.kind = "delete" /\ t.log # <<>> /\ t.log[1].ok) =>
            /\ \A k \in 1..Len(get_history(store)) : get_history(store)[k].id # t.entry.id
            /\ (t = fin /\ ~Failed(t)) => t.entry.id \notin HistoryIds

\* deleteEntry has returned with both invocations successful; the reload took the
\* entry off the display while another entry was captured in between.
C2_Witness ==
    /\ fin.kind = "delete"
    /\ Len(fin.log) = 2
    /\ ~Failed(fin)
    /\ fin.changed
    /\ history # <<>>

\* C3: an invocation of get_entry_content or delete_entry whose id is absent
\* from the store fails (with EntryNotFound when the external tool ran), changes
\* neither the store nor the clipboard, and is the handler's last invocation
\* (copyContent does not go on to write the clipboard); a fetch that succeeds
\* returns the content of the entry the id named when it was listed.
C3_StaleIdFailsCleanly ==
    \A t \in Handlers :
        \A k \in 1..Len(t.log) :
            /\ t.log[k].stale =>
                  /\ ~t.log[k].ok
                  /\ ~t.log[k].fault => t.log[k].err = "EntryNotFound"
                  /\ ~t.log[k].effect
                  /\ k = Len(t.log)
                  /\ t.pc # "req"
            /\ (t.log[k].cmd = "get_entry_content" /\ t.log[k].ok) =>
                  Preview(t.log[k].text) = t.entry.content

\* copyContent has returned: the entry it was called with had left the store.
C3_Witness ==
    /\ fin.kind = "copy"
    /\ Len(fin.log) = 1
    /\ fin.log[1].stale
    /\ fin.log[1].err = "EntryNotFound"
    /\ fin.entry.id \in HistoryIds

\* C4: copyContent invokes copy_to_clipboard only after get_entry_content has
\* succeeded, with exactly the fetched content; after a failed fetch it invokes
\* nothing more and has not changed the clipboard.
C4_FetchThenWrite ==
    \A t \in Handlers :
        t.kind = "copy" =>
            /\ t.log # <<>> => t.log[1].cmd = "get_entry_content"
            /\ t.cmd = "copy_to_clipboard" =>
                  /\ t.log # <<>>
                  /\ t.log[1].ok
                  /\ t.arg = t.log[1].text
            /\ \A k \in 1..Len(t.log) :
                  t.log[k].cmd = "copy_to_clipboard" =>
                      k = 2 /\ t.log[1].ok /\ t.log[k].arg = t.log[1].text
            /\ (t.log # <<>> /\ ~t.log[1].ok) =>
                  /\ Len(t.log) = 1
                  /\ t.cmd = "get_entry_content"
                  /\ ~t.log[1].effect

\* copyContent has returned after writing a content that is longer than the
\* preview on display.
C4_Witness ==
    /\ fin.kind = "copy"
    /\ Len(fin.log) = 2
    /\ fin.log[2].ok
    /\ clipboard = fin.log[1].text
    /\ clipboard # fin.entry.content

BlankQueries == {q \in SeqsUpTo({" "}, MaxQueryLen) : TRUE}

\* C8: rank with an empty or whitespace-only query returns the listing unchanged,
\* and the page's search() invokes get_history, not search_history, exactly when
\* the query it read is blank.
C8_BlankQueryIsList ==
    /\ (RankDone /\ rkQuery \in BlankQueries) => rkResult = rkEntries
    /\ LET listed == get_history(store)
       IN  \A q \in BlankQueries : search_history(store, q) = listed
    /\ \A t \in Handlers :
          /\ (t.kind = "search" /\ t.blank) =>
                /\ t.cmd = "get_history"
                /\ \A k \in 1..Len(t.log) : t.log[k].cmd = "get_history"
          /\ \A k \in 1..Len(t.log) :
                t.log[k].cmd = "search_history" => Trim(t.log[k].arg) # <<>>
          /\ t.cmd = "search_history" => Trim(t.arg) # <<>>

\* search() has returned a non-empty list for a query of one space.
C8_Witness ==
    /\ fin.kind = "search"
    /\ fin.blank
    /\ searchQuery = <<" ">>
    /\ ~Failed(fin)
    /\ history # <<>>
    /\ history = get_history(store)

\* The request for a list that search() issues for the value q of the search box.
RequestFor(t, q) == t.cmd = search_command(q) /\ t.arg = search_invoke(t, q).arg

\* C11: a response to an older request for a list (search or load) never
\* replaces the list that a later request has put on display: when no request
\* for a list is left in flight, the last response that changed the display was
\* not one that a later request's result had overtaken, and so the display is
\* the result of the request issued last, that for the current search box.
C11_NewestResultStays ==
    ( /\ fin.cmd \in ListCommands
      /\ fin.age = "overtaken"
      /\ \A t \in InFlight : t.cmd \notin ListCommands )
    => (~fin.changed \/ RequestFor(fin, searchQuery))

\* C12: when a handler (load, search, copy, delete, mount) returns and one of
\* the backend invocations made for it has failed, the error banner is showing.
C12_FailureShowsError ==
    (fin.kind # "idle" /\ Failed(fin)) => error # NoError

\* C13: when a handler returns after a failed backend invocation and the error
\* banner is showing, its text is exactly the message of that failure.
C13_ErrorTextVerbatim ==
    (fin.kind # "idle" /\ Failed(fin) /\ error # NoError)
    => error = <<fin.log[Len(fin.log)].err>>

\* The availability check of the mount handler t has answered true.
Available(t) == t.log # <<>> /\ t.log[1].ok /\ t.log[1].text = <<"true">>

\* C14: the mount handler invokes is_cliphist_available first and get_history
\* only after that check has answered true; when the check answers false or
\* fails the handler invokes nothing more, leaves the displayed history as it
\* was, and returns with an error message on display.
C14_AvailabilityFirst ==
    \A t \in Handlers :
        t.kind = "mount" =>
            /\ t.log = <<>> => t.cmd = "is_cliphist_available"
            /\ t.log # <<>> => t.log[1].cmd = "is_cliphist_available"
            /\ t.cmd = "get_history" => Available(t)
            /\ \A k \in 1..Len(t.log) :
                  t.log[k].cmd = "get_history" => (k = 2 /\ Available(t))
            /\ (t.log # <<>> /\ ~Available(t)) =>
                  /\ Len(t.log) = 1
                  /\ t.cmd = "is_cliphist_available"
                  /\ ~t.changed
                  /\ t = fin => error # NoError

\* The mount handler has returned after the check answered false: the list is
\* empty and the message is on display.
C14_Witness ==
    /\ fin.kind = "mount"
    /\ Len(fin.log) = 1
    /\ fin.log[1].ok
    /\ fin.log[1].text = <<"false">>
    /\ history = <<>>
    /\ error # NoError

\* C10: ESC pressed after onMount has returned closes the window.
C10_EscClosesAfterMount == escAfterMount => ~windowOpen

----------------------------------------------------------------------------
(* Properties of rank *)

\* text contains q, compared case-insensitively
ContainsCI(text, q) == Contains(Lowercase(text), Lowercase(q))

SomeWordIn(text, q) == \E k \in 1..Len(Words(q)) : ContainsCI(text, Words(q)[k])

\* C5: in rank's result every entry that contains the whole (trimmed) query as a
\* case-insensitive substring stands before every entry that matches only
\* through individual query words.
C5_SubstringAboveWords ==
    RankDone =>
        \A i, j \in 1..Len(rkResult) :
            ( /\ ContainsCI(rkResult[i].preview, Trim(rkQuery))
              /\ ~ContainsCI(rkResult[j].preview, Trim(rkQuery))
              /\ SomeWordIn(rkResult[j].preview, rkQuery) ) => i < j

\* A substring hit that stood after a word-only hit in the input has been moved
\* in front of it, although both contain the same number of query words.
C5_Witness ==
    /\ RankDone
    /\ \E i, j \in 1..Len(rkResult) :
          /\ i < j
          /\ rkResult[i].id > rkResult[j].id
          /\ ContainsCI(rkResult[i].preview, Trim(rkQuery))
          /\ ~ContainsCI(rkResult[j].preview, Trim(rkQuery))
          /\ WordSignalCount(rkResult[j].preview, rkQuery)
                = WordSignalCount(rkResult[i].preview, rkQuery)

\* C6: two entries of rank's result with equal score stand in the order they
\* had in the input list (an entry's id is its input position).
C6_StableTies ==
    RankDone =>
        \A i, j \in 1..Len(rkResult) :
            ( /\ i < j
              /\ Score(rkResult[i].preview, rkQuery) = Score(rkResult[j].preview, rkQuery) )
            => rkResult[i].id < rkResult[j].id

\* Two matching entries with different previews tie under a two-word query.
C6_Witness ==
    /\ RankDone
    /\ Len(Words(rkQuery)) = 2
    /\ \E i, j \in 1..Len(rkResult) :
          /\ i < j
          /\ rkResult[i].preview # rkResult[j].preview
          /\ Score(rkResult[i].preview, rkQuery) = Score(rkResult[j].preview, rkQuery)

\* C7: for a non-blank query the result holds exactly the entries whose preview
\* contains the query, or at least one of its words, case-insensitively; each
\* of them once.
C7_ExactlyTheMatches ==
    (RankDone /\ Trim(rkQuery) # <<>>) =>
        /\ {rkResult[i] : i \in 1..Len(rkResult)}
             = {rkEntries[i] : i \in {k \in 1..Len(rkEntries) :
                    \/ ContainsCI(rkEntries[k].preview, rkQuery)
                    \/ SomeWordIn(rkEntries[k].preview, rkQuery)}}
        /\ Cardinality({rkResult[i] : i \in 1..Len(rkResult)}) = Len(rkResult)

\* One entry is returned for a single word of a two-word query (in another
\* letter case), another is left out.
C7_Witness ==
    /\ RankDone
    /\ Len(Words(rkQuery)) = 2
    /\ Len(rkResult) = 1
    /\ Len(rkEntries) = 2
    /\ ~ContainsCI(rkResult[1].preview, rkQuery)
    /\ ~Contains(rkResult[1].preview, Words(rkQuery)[1])
    /\ ~Contains(rkResult[1].preview, Words(rkQuery)[2])

----------------------------------------------------------------------------
(* Properties of parse *)

\* A line is well formed when a non-empty identifying token precedes its first tab.
WellFormedLine(line) ==
    \E t \in 2..Len(line) : line[t] = "\t" /\ \A k \in 1..(t - 1) : line[k] # "\t"

RawLine(e) == e.id \o <<"\t">> \o e.preview

ParseDone == psPc = "done"

\* C9: parse returns one entry per well-formed line and none for a malformed
\* one, in the order of the lines; an empty dump yields the empty sequence.
C9_OneEntryPerWellFormedLine ==
    ParseDone =>
        /\ [k \in 1..Len(psResult) |-> RawLine(psResult[k])]
              = SelectSeq(Lines(psDump), WellFormedLine)
        /\ \A k \in 1..Len(psResult) :
              psResult[k].id # <<>> /\ ~Contains(psResult[k].id, <<"\t">>)
        /\ (psDump = <<>> => psResult = <<>>)

\* A malformed line stands between two well-formed lines, both of which are returned.
C9_Witness ==
    /\ ParseDone
    /\ Len(Lines(psDump)) = 3
    /\ ~WellFormedLine(Lines(psDump)[2])
    /\ Len(psResult) = 2

----------------------------------------------------------------------------
(* Properties of debounce *)

\* The positions in dbLog of the runs of func and of the calls of executedFunction.
RunsAt  == {i \in 1..Len(dbLog) : dbLog[i].ev = "run"}
CallsAt == {i \in 1..Len(dbLog) : dbLog[i].ev = "call"}

\* The most recent call before position i, 0 when there is none.
PrevCall(i) ==
    IF \E j \in CallsAt : j < i
    THEN CHOOSE j \in CallsAt : j < i /\ \A k \in CallsAt : k < i => k <= j
    ELSE 0

\* The first call after position j, Len(dbLog) + 1 when there is none.
NextCall(j) ==
    IF \E k \in CallsAt : k > j
    THEN CHOOSE k \in CallsAt : k > j /\ \A m \in CallsAt : m > j => k <= m
    ELSE Len(dbLog) + 1

RunsAfter(j) == {i \in RunsAt : j < i /\ i < NextCall(j)}

\* func runs only when a full wait has passed since the most recent call, with
\* that call's arguments, and once for that call at most.
RunsOnlyAfterWait ==
    \A i \in RunsAt :
        /\ PrevCall(i) # 0
        /\ dbLog[i].at - dbLog[PrevCall(i)].at >= dbWait
        /\ dbLog[i].args = dbLog[PrevCall(i)].args
        /\ RunsAfter(PrevCall(i)) = {i}

\* The call at j is the last of a burst that a later call has followed.
EndsBurst(j) ==
    /\ NextCall(j) <= Len(dbLog)
    /\ dbLog[NextCall(j)].at - dbLog[j].at >= dbWait

\* C15 as claimed: func runs only when a full wait has passed since the most
\* recent call, and every burst of calls less than wait apart has caused exactly
\* one run of func, after its last call and with that call's arguments.
C15_OneRunPerBurst ==
    /\ RunsOnlyAfterWait
    /\ \A j \in CallsAt : EndsBurst(j) => Cardinality(RunsAfter(j)) = 1

\* C15 as amended: func runs only when a full wait has passed since the most
\* recent call, with that call's arguments and at most once per call; the most
\* recent call has either had its run or has its timer, and no other, pending.
C15_RunAfterQuietWait ==
    /\ RunsOnlyAfterWait
    /\ CallsAt = {} => dbTimers = {}
    /\ \A j \in CallsAt :
          NextCall(j) > Len(dbLog) =>
              IF RunsAfter(j) = {}
              THEN dbTimers = {[id |-> dbTimeout, due |-> dbLog[j].at + dbWait,
                                args |-> dbLog[j].args]}
              ELSE dbTimers = {}

\* Two calls less than wait apart with different arguments, then one run with
\* the arguments of the second.
C15_Witness ==
    /\ Len(dbLog) = 3
    /\ dbLog[1].ev = "call"
    /\ dbLog[2].ev = "call"
    /\ dbLog[3].ev = "run"
    /\ dbLog[2].at > dbLog[1].at
    /\ dbLog[2].at - dbLog[1].at < dbWait
    /\ dbLog[1].args # dbLog[2].args
    /\ dbLog[3].args = dbLog[2].args
    /\ dbTimers = {}

----------------------------------------------------------------------------
(* Properties of the ThemeManager *)

\* C16: whenever no setTheme call is in progress, getResolvedTheme() is the
\* selected theme if that is 'light' or 'dark', and the system preference if
\* the selected theme is 'system'.
C16_ResolvedFollowsTheme ==
    (themeOn /\ settingTheme = 0) =>
        /\ currentTheme \in {"light", "dark"} => currentResolvedTheme = currentTheme
        /\ currentTheme = "system" =>
              currentResolvedTheme = (IF prefersDark THEN "dark" ELSE "light")

\* C17: after the function returned by a subscribe call has been called, the
\* listeners are those of the registrations left when every such call removes
\* the registration of its own subscribe call, if that is still there, and no
\* other.
C17_UnsubscribeRemovesOwn ==
    lastOp.op = "unsubscribe" => listeners = [k \in 1..Len(ideal) |-> ideal[k].fn]

Count(seq, x) == Cardinality({k \in 1..Len(seq) : seq[k] = x})

\* C18: in every update of the resolved theme each listener subscribed when
\* the update starts is notified exactly once, whatever the listeners do when
\* they are notified.
C18_EachNotifiedOnce ==
    lastOp.op = "update" =>
        \A fn \in Listeners : Count(lastOp.notified, fn) = Count(lastOp.before, fn)

====
